---- MODULE Spec2Model ----
(***************************************************************************)
(* Model of mongodb-slow-log-analyzer.py: one run of main(), from opening  *)
(* the log file, through the line-by-line ingestion loop of                *)
(* process_slow_log, to the bulk write into the SQLite store and the       *)
(* report query.                                                           *)
(*                                                                         *)
(* Python values are encoded as records [t, n, s] (type tag, integer       *)
(* payload, string payload) so that values of different Python types can   *)
(* live in one set.  The flat dictionary `result` is a function from the   *)
(* concatenated string keys ("count_" + hash, ...) to values.              *)
(***************************************************************************)
EXTENDS Integers, Sequences, FiniteSets, TLC

(* ----------------------------- bounds ---------------------------------- *)

\* Longest input (number of lines read from the log file) explored.
MaxLines == 3

(* ------------------------- Python values ------------------------------- *)

PyNone == [t |-> "none", n |-> 0, s |-> ""]
\* marks a key that is not in a JSON object at all (dict lookup would miss)
PyMissing == [t |-> "missing", n |-> 0, s |-> ""]
\* a non-empty JSON array such as [1]: truthy, unhashable, not a mapping
PyList == [t |-> "list", n |-> 0, s |-> ""]
PyInt(i) == [t |-> "int", n |-> i, s |-> ""]
PyStr(x) == [t |-> "str", n |-> 0, s |-> x]

\* Python truth value of an object (bool(v)).
Truthy(v) ==
    CASE v.t = "none" -> FALSE
      [] v.t = "missing" -> FALSE
      [] v.t = "int" -> v.n # 0
      [] v.t = "str" -> v.s # ""
      [] OTHER -> TRUE

\* Stand-in, at the scale of TLC's 32-bit integers, for the largest finite
\* float (about 1.8 * 10^308): an int / int true division whose quotient
\* exceeds it raises OverflowError.
FloatMax == 1048576

\* Stand-in, at the same scale, for 2^63 - 1: sqlite3 refuses to bind a
\* larger Python int to a statement parameter (OverflowError).
SqliteIntMax == 524288

\* A durationMillis too large for a float (a JSON integer literal of a few
\* hundred digits, which json.loads decodes to an exact Python int).
Huge == 16777216

(* --------------------------- input lines ------------------------------- *)

\* The attributes of a slow-query record (the JSON object under "attr").
\* `kind` is "missing" (no "attr" key), "null" (attr is JSON null) or "dict".
Attr(kind, h, d, ns, plan, cmd) ==
    [kind |-> kind, queryHash |-> h, durationMillis |-> d, ns |-> ns,
     planSummary |-> plan, command |-> cmd]

NoAttr == Attr("missing", PyMissing, PyNone, PyNone, PyNone, PyNone)
NullAttr == Attr("null", PyMissing, PyNone, PyNone, PyNone, PyNone)
EmptyAttr == Attr("dict", PyMissing, PyNone, PyNone, PyNone, PyNone)

\* One line of the log file.  `json` says what json.loads makes of it:
\*   "garbage" - not JSON (JSONDecodeError)
\*   "falsy"   - JSON that decodes to a falsy value: {}, [], 0, "", null
\*   "nondict" - JSON that decodes to a truthy non-mapping, e.g. [1]
\*   "dict"    - a non-empty JSON object with the given msg and attr
Line(json, msg, attr) == [json |-> json, msg |-> msg, attr |-> attr]

GarbageLine == Line("garbage", PyMissing, NoAttr)
FalsyLine == Line("falsy", PyMissing, NoAttr)
NonDictLine == Line("nondict", PyMissing, NoAttr)
NoMsgLine == Line("dict", PyMissing, EmptyAttr)
OtherMsgLine == Line("dict", PyStr("Connection ended"), EmptyAttr)
SlowNoAttrLine == Line("dict", PyStr("Slow query"), NoAttr)
SlowNullAttrLine == Line("dict", PyStr("Slow query"), NullAttr)
SlowNoHashLine == Line("dict", PyStr("Slow query"), EmptyAttr)

SlowQuery(h, d, ns, plan, cmd) ==
    Line("dict", PyStr("Slow query"), Attr("dict", h, d, ns, plan, cmd))

\* Slow-query lines that carry a queryHash.
EventLines ==
    { SlowQuery(PyStr("A"), PyInt(100), PyStr("db.a"), PyStr("COLLSCAN"), PyStr("find a")),
      SlowQuery(PyStr("A"), PyInt(300), PyStr("db.b"), PyStr("IXSCAN"), PyStr("find b")),
      SlowQuery(PyStr("B"), PyInt(50), PyStr("db.a"), PyStr("COLLSCAN"), PyStr("")),
      SlowQuery(PyStr("A"), PyInt(0), PyNone, PyNone, PyNone),
      \* planSummary in lower case
      SlowQuery(PyStr("B"), PyInt(50), PyStr("db.b"), PyStr("collscan"), PyStr("find b")),
      \* no durationMillis in attr
      SlowQuery(PyStr("A"), PyNone, PyStr("db.c"), PyStr("IXSCAN"), PyStr("find c")),
      SlowQuery(PyStr("B"), PyNone, PyStr("db.b"), PyNone, PyNone),
      \* durationMillis is a JSON string
      SlowQuery(PyStr("A"), PyStr("12ms"), PyStr("db.a"), PyStr("COLLSCAN"), PyStr("find a")),
      \* durationMillis is a very long integer literal
      SlowQuery(PyStr("A"), PyInt(Huge), PyStr("db.a"), PyStr("COLLSCAN"), PyStr("find a")),
      \* queryHash is "", a number, an array
      SlowQuery(PyStr(""), PyInt(100), PyStr("db.a"), PyStr("COLLSCAN"), PyStr("find a")),
      SlowQuery(PyInt(7), PyInt(100), PyStr("db.a"), PyStr("COLLSCAN"), PyStr("find a")),
      SlowQuery(PyList, PyInt(100), PyStr("db.a"), PyStr("COLLSCAN"), PyStr("find a")) }

Lines ==
    { GarbageLine, FalsyLine, NonDictLine, NoMsgLine, OtherMsgLine,
      SlowNoAttrLine, SlowNullAttrLine, SlowNoHashLine } \cup EventLines

(* ------------------------ parsing and extraction ----------------------- *)

\* parse_log_line: json.loads(line), None on JSONDecodeError.  The decoded
\* value keeps the shape of a Line; None is the Line with json = "none".
ParsedNone == Line("none", PyMissing, NoAttr)

parse_log_line(line) ==
    IF line.json = "garbage" THEN ParsedNone ELSE line

\* A loop body that runs for every line, decoded or not.
ParsedTruthyAlways(parsed) == TRUE

\* bool(parsed_data) in `if parsed_data:`
ParsedTruthy(parsed) == parsed.json \in {"nondict", "dict"}

\* The local variable query_data: unbound, None, or the extracted dict.
QueryData(t, h, d, ns, plan, cmd) ==
    [t |-> t, hash |-> h, durationMillis |-> d, ns |-> ns,
     planSummary |-> plan, command |-> cmd]

QDUnbound == QueryData("unbound", PyNone, PyNone, PyNone, PyNone, PyNone)
QDNone == QueryData("none", PyNone, PyNone, PyNone, PyNone, PyNone)

\* extract_query_data(data): [raised, value].  raised = TRUE stands for the
\* exception the body throws (AttributeError on data.get for a non-mapping,
\* KeyError on data["msg"], TypeError on `"queryHash" in None`).
extract_query_data(d) ==
    IF d.json # "dict" THEN [raised |-> TRUE, value |-> QDNone]
    ELSE IF d.msg.t = "missing" THEN [raised |-> TRUE, value |-> QDNone]
    ELSE IF d.msg # PyStr("Slow query") THEN [raised |-> FALSE, value |-> QDNone]
    ELSE IF d.attr.kind = "null" THEN [raised |-> TRUE, value |-> QDNone]
    ELSE IF d.attr.kind = "dict" /\ d.attr.queryHash.t # "missing"
         THEN [raised |-> FALSE,
               value |-> QueryData("event", d.attr.queryHash, d.attr.durationMillis,
                                   d.attr.ns, d.attr.planSummary, d.attr.command)]
    ELSE [raised |-> FALSE, value |-> QDNone]

(* --------------------------- the flat map ------------------------------ *)

EmptyDict == [k \in {} |-> 0]

\* dict.get(k, default)
Get(d, k, default) == IF k \in DOMAIN d THEN d[k] ELSE default

\* d[k] = v
Put(d, k, v) == [x \in DOMAIN d \cup {k} |-> IF x = k THEN v ELSE d[x]]

\* A setdefault that assigns also when the key is present (last seen wins).
SetDefaultOverwrites(d, k, v) == Put(d, k, v)

\* d.setdefault(k, v): the dict afterwards
SetDefault(d, k, v) == IF k \in DOMAIN d THEN d ELSE Put(d, k, v)

\* A Python float that is the quotient of two ints, kept exact.
Ratio(num, den) == [num |-> num, den |-> den]
Zero == Ratio(0, 1)

\* int / int raises OverflowError when the quotient does not fit a float.
DivOverflows(a, b) == a \div b > FloatMax

\* A key that leaves the fingerprint out.
KeyWithoutHash(prefix, h) == prefix

\* The key of one field of one fingerprint: prefix + hash_key.
Key(prefix, h) == prefix \o h.s

\* An append that skips an absent or empty plan summary.
AppendPlanIfPresent(plans, plan) == IF Truthy(plan) THEN Append(plans, plan) ELSE plans

\* result.setdefault("planSummary_" + hash_key, []).append(planSummary):
\* the list afterwards.
AppendPlan(plans, plan) == Append(plans, plan)

\* The conditional expression that computes avgDurationMillis, given that
\* the division does not overflow.
Average(total, count) ==
    IF total # 0 /\ count > 0 THEN Ratio(total, count) ELSE Zero

\* create_or_update_result(result, query_data): [raised, result].  The body
\* runs statement by statement on the same dict, so when a statement raises
\* the result carries the effects of the statements before it.
create_or_update_result(res, qd) ==
    IF qd.hash.t # "str" THEN [raised |-> TRUE, result |-> res]
    ELSE IF qd.durationMillis.t # "int" THEN [raised |-> TRUE, result |-> res]
    ELSE
    LET kd == Key("durationMillis_", qd.hash)
        kc == Key("count_", qd.hash)
        kn == Key("ns_", qd.hash)
        kp == Key("planSummary_", qd.hash)
        ka == Key("avgDurationMillis_", qd.hash)
        km == Key("command_", qd.hash)
        r1 == Put(res, kd, Get(res, kd, 0) + qd.durationMillis.n)
        r2 == Put(r1, kc, Get(r1, kc, 0) + 1)
        r3 == SetDefault(r2, kn, qd.ns)
        r4 == Put(r3, kp, AppendPlan(Get(r3, kp, <<>>), qd.planSummary))
        divides == r4[kd] # 0 /\ r4[kc] > 0
        r5 == Put(r4, ka, Average(r4[kd], r4[kc]))
        r6 == IF Truthy(qd.command) /\ km \notin DOMAIN r5
              THEN Put(r5, km, qd.command) ELSE r5
    IN  IF divides /\ DivOverflows(r4[kd], r4[kc])
        THEN [raised |-> TRUE, result |-> r4]
        ELSE [raised |-> FALSE, result |-> r6]

(* ------------------------------ state ---------------------------------- *)

VARIABLES
    pc,          \* where the run is
    data,        \* the lines read from the log file so far
    query_data,  \* local variable of process_slow_log
    hashes,      \* local set of process_slow_log
    result,      \* local dict of process_slow_log
    db,          \* the store file: [exists, rows]
    todo,        \* hashes the insert loop has not visited yet
    fileOpen,    \* the log file handle is open
    connOpen,    \* the sqlite connection is open (connected, close() not called)
    printed,     \* messages printed so far
    prior,       \* the store file as the run found it (never written)
    args,        \* the command-line arguments the report query was built from
    output       \* the rows fetched by the report query

vars == <<pc, data, query_data, hashes, result, db, todo, fileOpen, connOpen,
          printed, prior, args, output>>

(* ------------------------------ store ---------------------------------- *)

\* The characters of the texts that reach a TEXT column (plan summaries
\* and commands of the input, the command of the prior store's row).
Chars(x) ==
    CASE x = "COLLSCAN" -> <<"C", "O", "L", "L", "S", "C", "A", "N">>
      [] x = "collscan" -> <<"c", "o", "l", "l", "s", "c", "a", "n">>
      [] x = "IXSCAN" -> <<"I", "X", "S", "C", "A", "N">>
      [] x = "find a" -> <<"f", "i", "n", "d", " ", "a">>
      [] x = "find b" -> <<"f", "i", "n", "d", " ", "b">>
      [] x = "find c" -> <<"f", "i", "n", "d", " ", "c">>
      [] x = "find old" -> <<"f", "i", "n", "d", " ", "o", "l", "d">>
      [] x = "" -> <<>>

\* repr() of a plan summary inside a list: 'text' or None.
Repr(v) ==
    IF v.t = "str" THEN <<"'">> \o Chars(v.s) \o <<"'">>
    ELSE <<"N", "o", "n", "e">>

RECURSIVE JoinRepr(_)
JoinRepr(plans) ==
    IF Len(plans) = 0 THEN <<>>
    ELSE IF Len(plans) = 1 THEN Repr(plans[1])
    ELSE Repr(plans[1]) \o <<",", " ">> \o JoinRepr(Tail(plans))

\* str() of a list of plan summaries, e.g. ['COLLSCAN', None], as the
\* sequence of its characters.
StrOfList(plans) == <<"[">> \o JoinRepr(plans) \o <<"]">>

\* One row of the results table, built as the INSERT statement builds it.
Row(res, h) ==
    [hash |-> h.s,
     durationMillis |-> Get(res, Key("durationMillis_", h), 0),
     count |-> Get(res, Key("count_", h), 0),
     avgDurationMillis |-> Get(res, Key("avgDurationMillis_", h), Zero),
     ns |-> Get(res, Key("ns_", h), PyStr("")),
     planSummary |-> IF Key("planSummary_", h) \in DOMAIN res
                     THEN StrOfList(res[Key("planSummary_", h)]) ELSE <<>>,
     command |-> Chars(Get(res, Key("command_", h), PyStr("")).s)]

\* INSERT OR REPLACE on the primary key `hash`.
InsertOrReplace(rows, row) == {r \in rows : r.hash # row.hash} \cup {row}

\* Building or binding the row's parameters raises: the key concatenation
\* needs a str hash, and sqlite3 rejects an int beyond 64 bits.
InsertRaises(res, h) ==
    \/ h.t # "str"
    \/ Get(res, Key("durationMillis_", h), 0) > SqliteIntMax

\* A store left behind by an earlier run.
PriorRow ==
    [hash |-> "A", durationMillis |-> 900, count |-> 9,
     avgDurationMillis |-> Ratio(900, 9), ns |-> PyStr("db.old"),
     planSummary |-> StrOfList(<<PyStr("COLLSCAN")>>), command |-> Chars("find old")]

NoDb == [exists |-> FALSE, rows |-> {}]
PriorDbs == {NoDb, [exists |-> TRUE, rows |-> {PriorRow}]}

\* A store that is opened where it lies: without the os.remove, CREATE TABLE
\* IF NOT EXISTS keeps the table and its rows.
ReuseStore(d) == [exists |-> TRUE, rows |-> d.rows]

\* if os.path.exists(db): os.remove(db); sqlite3.connect(db); CREATE TABLE:
\* the store afterwards, whatever it was before.
RecreateStore(d) == [exists |-> TRUE, rows |-> {}]

(* ------------------------------ report --------------------------------- *)

\* argparse defaults of --limit, --char-limit and --count.
DefaultLimit == 10
DefaultCharLimit == 100
DefaultCount == 1

SortKeys == {"avgDurationMillis", "durationMillis", "count"}

Arguments(limit, char_limit, count, collscan, sort) ==
    [limit |-> limit, char_limit |-> char_limit, count |-> count,
     collscan |-> collscan, sort |-> sort]

DefaultArgs ==
    Arguments(DefaultLimit, DefaultCharLimit, DefaultCount, FALSE, "avgDurationMillis")

\* The argument values explored: any int is accepted for --limit, a
\* negative one included.
Args ==
    {Arguments(l, DefaultCharLimit, c, k, o) :
        l \in {-1, 1}, c \in {DefaultCount, 2}, k \in BOOLEAN, o \in SortKeys}

\* ASCII letters; LIKE compares them without regard to case.
LowerCase ==
    <<"a", "b", "c", "d", "e", "f", "g", "h", "i", "j", "k", "l", "m",
      "n", "o", "p", "q", "r", "s", "t", "u", "v", "w", "x", "y", "z">>
UpperCase ==
    <<"A", "B", "C", "D", "E", "F", "G", "H", "I", "J", "K", "L", "M",
      "N", "O", "P", "Q", "R", "S", "T", "U", "V", "W", "X", "Y", "Z">>

\* The upper-case letter of each lower-case letter.
FoldTable ==
    [c \in {LowerCase[i] : i \in 1..26} |->
        UpperCase[CHOOSE i \in 1..26 : LowerCase[i] = c]]

Fold(c) == IF c \in DOMAIN FoldTable THEN FoldTable[c] ELSE c

\* text LIKE '%pattern%' in SQLite.
Like(text, pattern) ==
    \E i \in 1..(Len(text) - Len(pattern) + 1) :
        \A j \in 1..Len(pattern) : Fold(text[i + j - 1]) = Fold(pattern[j])

\* A WHERE clause that keeps only the rows above the minimum count.
WhereAboveCount(r, a) ==
    /\ r.count > a.count
    /\ a.collscan => Like(r.planSummary, Chars("COLLSCAN"))

\* WHERE count >= {count} {query_condition}
Where(r, a) ==
    /\ r.count >= a.count
    /\ a.collscan => Like(r.planSummary, Chars("COLLSCAN"))

\* r1's sort column is >= r2's.
KeyGE(r1, r2, sort) ==
    CASE sort = "avgDurationMillis" ->
             r1.avgDurationMillis.num * r2.avgDurationMillis.den
                 >= r2.avgDurationMillis.num * r1.avgDurationMillis.den
      [] sort = "durationMillis" -> r1.durationMillis >= r2.durationMillis
      [] sort = "count" -> r1.count >= r2.count

\* An ascending order.
OrderedAscending(seq, sort) ==
    \A i, j \in 1..Len(seq) : i < j => KeyGE(seq[j], seq[i], sort)

\* ORDER BY {sort} DESC: seq is in an order the clause allows (rows with
\* equal keys in any order).
OrderedBy(seq, sort) ==
    \A i, j \in 1..Len(seq) : i < j => KeyGE(seq[i], seq[j], sort)

\* LIMIT {limit}: a negative limit is no limit.
Limit(seq, limit) ==
    IF limit < 0 \/ limit >= Len(seq) THEN seq ELSE SubSeq(seq, 1, limit)

\* SUBSTR(text, 1, char_limit)
Substr(text, n) == IF n >= Len(text) THEN text ELSE SubSeq(text, 1, n)

\* The columns of one fetched row.
Fetched(r, a) ==
    [r EXCEPT !.planSummary = Substr(@, a.char_limit),
              !.command = Substr(@, a.char_limit)]

\* The sequences that list every row of the set once.
Listings(S) ==
    {f \in [1..Cardinality(S) -> S] : \A i, j \in 1..Cardinality(S) : f[i] = f[j] => i = j}

\* The results the SELECT may fetch from the table.
Select(table, a) ==
    LET kept == {r \in table : Where(r, a)}
        sorted == {f \in Listings(kept) : OrderedBy(f, a.sort)}
    IN  {[i \in 1..Len(Limit(f, a.limit)) |-> Fetched(f[i], a)] : f \in sorted}

(* ------------------------------ actions -------------------------------- *)

Init ==
    /\ pc = "start"
    /\ data = <<>>
    /\ query_data = QDUnbound
    /\ hashes = {}
    /\ result = EmptyDict
    /\ db \in PriorDbs
    /\ todo = {}
    /\ fileOpen = FALSE
    /\ connOpen = FALSE
    /\ printed = <<>>
    /\ prior = db
    /\ args = DefaultArgs
    /\ output = <<>>

\* A start that clears the store before the log is read.
OpenLogRemovingStore ==
    /\ pc = "start"
    /\ pc' = "ingest"
    /\ fileOpen' = TRUE
    /\ db' = NoDb
    /\ UNCHANGED <<data, query_data, hashes, result, todo, connOpen, printed, prior, args, output>>

\* main: open(args.log) succeeds and process_slow_log starts.
OpenLog ==
    /\ pc = "start"
    /\ pc' = "ingest"
    /\ fileOpen' = TRUE
    /\ UNCHANGED <<data, query_data, hashes, result, db, todo, connOpen, printed, prior, args, output>>

\* main: open(args.log) raises FileNotFoundError.
LogNotFound ==
    /\ pc = "start"
    /\ pc' = "not_found"
    /\ printed' = Append(printed, "does not exist")
    /\ UNCHANGED <<data, query_data, hashes, result, db, todo, fileOpen, connOpen, prior, args, output>>

\* An exception leaves process_slow_log: the with block closes the file and
\* main prints "An error occurred".
Abort(at, msgs) ==
    /\ pc' = at
    /\ fileOpen' = FALSE
    /\ printed' = Append(msgs, "An error occurred")

\* One iteration of `for line in data`.
Ingest(line) ==
    /\ pc = "ingest"
    /\ Len(data) < MaxLines
    /\ data' = Append(data, line)
    /\ UNCHANGED <<db, todo, connOpen, prior, args, output>>
    /\ LET parsed == parse_log_line(line) IN
       IF ~ParsedTruthy(parsed)
       THEN UNCHANGED <<pc, query_data, hashes, result, fileOpen, printed>>
       ELSE
       LET ex == extract_query_data(parsed)
           qd == IF ex.raised THEN query_data ELSE ex.value
           msgs == IF ex.raised
                   THEN Append(printed, "failed to extract query data")
                   ELSE printed
       IN  CASE qd.t = "unbound" ->
                  \* `if query_data:` reads an unassigned local
                  /\ Abort("aborted_ingest", msgs)
                  /\ UNCHANGED <<query_data, hashes, result>>
             [] qd.t = "none" ->
                  /\ query_data' = qd
                  /\ printed' = msgs
                  /\ UNCHANGED <<pc, hashes, result, fileOpen>>
             [] qd.t = "event" /\ qd.hash.t = "list" ->
                  \* `hash_key not in hashes` on an unhashable value
                  /\ query_data' = qd
                  /\ Abort("aborted_ingest", msgs)
                  /\ UNCHANGED <<hashes, result>>
             [] OTHER ->
                  LET cu == create_or_update_result(result, qd) IN
                  /\ query_data' = qd
                  /\ hashes' = hashes \cup {qd.hash}
                  /\ result' = cu.result
                  /\ printed' = IF cu.raised
                                THEN Append(msgs, "failed to create or update result")
                                ELSE msgs
                  /\ UNCHANGED <<pc, fileOpen>>

\* The for loop reaches the end of the file.
EndOfInput ==
    /\ pc = "ingest"
    /\ pc' = "persist"
    /\ UNCHANGED <<data, query_data, hashes, result, db, todo, fileOpen, connOpen, printed, prior, args, output>>

\* os.remove(db) if it exists, sqlite3.connect(db), CREATE TABLE.
OpenStore ==
    /\ pc = "persist"
    /\ pc' = "insert"
    /\ db' = RecreateStore(db)
    /\ connOpen' = TRUE
    /\ todo' = hashes
    /\ UNCHANGED <<data, query_data, hashes, result, fileOpen, printed, prior, args, output>>

\* One iteration of `for hash_key in hashes` (a set: any order).  When it
\* raises, connection.close() is never called: connOpen stays TRUE, the
\* program has not closed the handle.
InsertRow ==
    /\ pc = "insert"
    /\ \E h \in todo :
         IF InsertRaises(result, h)
         THEN /\ Abort("aborted_persist", printed)
              /\ UNCHANGED <<db, todo, connOpen>>
         ELSE /\ db' = [db EXCEPT !.rows = InsertOrReplace(@, Row(result, h))]
              /\ todo' = todo \ {h}
              /\ UNCHANGED <<pc, fileOpen, printed, connOpen>>
    /\ UNCHANGED <<data, query_data, hashes, result, prior, args, output>>

\* The SELECT, the table print, connection.close(), and the return to
\* main, where the with block closes the file.  The arguments are read
\* here for the first time, so they are drawn here.
Report ==
    /\ pc = "insert"
    /\ todo = {}
    /\ pc' = "done"
    /\ \E a \in Args : \E out \in Select(db.rows, a) :
         /\ args' = a
         /\ output' = out
    /\ connOpen' = FALSE
    /\ fileOpen' = FALSE
    /\ UNCHANGED <<data, query_data, hashes, result, db, todo, printed, prior>>

Next ==
    \/ OpenLog
    \/ LogNotFound
    \/ \E line \in Lines : Ingest(line)
    \/ EndOfInput
    \/ OpenStore
    \/ InsertRow
    \/ Report

Spec == Init /\ [][Next]_vars

(* ---------------------- the input, read as events ---------------------- *)

\* The string fingerprints that occur in the input alphabet.
StrHashes == {l.attr.queryHash : l \in {x \in EventLines : x.attr.queryHash.t = "str"}}

\* The line decodes and extraction returns a query event for it.
Extracted(line) ==
    LET p == parse_log_line(line) IN
    /\ ParsedTruthy(p)
    /\ ~extract_query_data(p).raised
    /\ extract_query_data(p).value.t = "event"

\* Positions of the input whose line is a query event with fingerprint h.
EventsOf(h) == {i \in 1..Len(data) : Extracted(data[i]) /\ data[i].attr.queryHash = h}

\* Fingerprints carried by the events of the input.
Observed == {h \in StrHashes : EventsOf(h) # {}}

\* duration_ms of an event, an absent or non-numeric one counting as 0.
DurationOf(line) ==
    IF line.attr.durationMillis.t = "int" THEN line.attr.durationMillis.n ELSE 0

RECURSIVE SumDurations(_, _)
SumDurations(h, n) ==
    IF n = 0 THEN 0
    ELSE SumDurations(h, n - 1) + (IF n \in EventsOf(h) THEN DurationOf(data[n]) ELSE 0)

RECURSIVE SumCounts(_, _)
SumCounts(res, hs) ==
    IF hs = {} THEN 0
    ELSE LET h == CHOOSE x \in hs : TRUE
         IN  Get(res, Key("count_", h), 0) + SumCounts(res, hs \ {h})

Min(S) == CHOOSE x \in S : \A y \in S : x <= y

\* The for loop over the input has run to its end.
IngestionEnded == pc \in {"persist", "insert", "done"}

\* The fields of the in-memory record of fingerprint h.
Total(res, h) == Get(res, Key("durationMillis_", h), 0)
Count(res, h) == Get(res, Key("count_", h), 0)
Mean(res, h) == Get(res, Key("avgDurationMillis_", h), Zero)
Plans(res, h) == Get(res, Key("planSummary_", h), <<>>)

\* The step reads line l from the input.
Reads(l) == pc = "ingest" /\ data' = Append(data, l)

(* ------------------------------ claims --------------------------------- *)

\* C1: at the end of ingestion the sum of occurrence_count over all
\* aggregate records equals the number of successfully classified and
\* extracted slow-query events of the input.
C1_CountSumEqualsEvents ==
    IngestionEnded =>
        SumCounts(result, StrHashes)
            = Cardinality({i \in 1..Len(data) : Extracted(data[i])})

\* C2: a line whose decoded record has an unexpected shape never ends the
\* ingestion loop: no run is aborted while lines are being processed.
C2_FailureIsolation == pc # "aborted_ingest"

\* C3: reading a slow-query event that has a fingerprint but no
\* durationMillis adds 1 to the fingerprint's occurrence_count and 0 to its
\* total_duration_ms.
C3_AbsentDurationCounts ==
    [][\A l \in EventLines :
         (/\ Reads(l)
          /\ l.attr.queryHash \in StrHashes
          /\ l.attr.durationMillis = PyNone)
         => /\ Count(result', l.attr.queryHash) = Count(result, l.attr.queryHash) + 1
            /\ Total(result', l.attr.queryHash) = Total(result, l.attr.queryHash)]_vars

\* C4: after a completed run, the row persisted for every fingerprint of
\* the input holds the sum of the durations of that fingerprint's events
\* and the number of those events.
C4_PersistedSumAndCount ==
    pc = "done" =>
        \A h \in Observed :
            \E r \in db.rows :
                /\ r.hash = h.s
                /\ r.durationMillis = SumDurations(h, Len(data))
                /\ r.count = Cardinality(EventsOf(h))

\* C5: in every state every aggregate record has mean_duration_ms equal to
\* total_duration_ms / occurrence_count when the count is positive, and 0
\* otherwise.
C5_MeanConsistent ==
    \A h \in StrHashes :
        IF Count(result, h) > 0
        THEN Mean(result, h).num * Count(result, h)
                 = Total(result, h) * Mean(result, h).den
        ELSE Mean(result, h).num = 0

\* C6: once the namespace or the command of a fingerprint's record is set,
\* no step changes it.
C6_FirstSeenStable ==
    [][\A h \in StrHashes : \A prefix \in {"ns_", "command_"} :
         Key(prefix, h) \in DOMAIN result
         => /\ Key(prefix, h) \in DOMAIN result'
            /\ result'[Key(prefix, h)] = result[Key(prefix, h)]]_vars

\* C6 witness: two events of one fingerprint with different namespaces and
\* different non-empty commands have both been merged, and the record holds
\* the namespace and command of the earlier one.
C6_Witness ==
    \E h \in StrHashes : \E i, j \in EventsOf(h) :
        /\ i < j
        /\ data[i].attr.ns # data[j].attr.ns
        /\ Truthy(data[i].attr.command) /\ Truthy(data[j].attr.command)
        /\ data[i].attr.command # data[j].attr.command
        /\ Count(result, h) >= 2
        /\ Key("ns_", h) \in DOMAIN result
        /\ result[Key("ns_", h)] = data[i].attr.ns
        /\ Key("command_", h) \in DOMAIN result
        /\ result[Key("command_", h)] = data[i].attr.command

\* C7: at the end of ingestion each record's namespace is that of the first
\* event of its fingerprint in input order, and its command is that of the
\* first event of the fingerprint with a non-empty command (unset when
\* there is none).
C7_FirstEventWins ==
    IngestionEnded =>
        \A h \in Observed :
            LET withCmd == {i \in EventsOf(h) : Truthy(data[i].attr.command)} IN
            /\ Get(result, Key("ns_", h), PyMissing) = data[Min(EventsOf(h))].attr.ns
            /\ Get(result, Key("command_", h), PyMissing)
                   = IF withCmd = {} THEN PyMissing
                     ELSE data[Min(withCmd)].attr.command

\* C8: in every state, for every fingerprint, the length of plan_summaries
\* equals occurrence_count.
C8_PlansMatchCount ==
    \A h \in StrHashes : Len(Plans(result, h)) = Count(result, h)

\* C8 witness: a record has been updated at least twice, with an absent
\* plan summary and with a repeated one.
C8_Witness ==
    \E h \in StrHashes :
        /\ Count(result, h) >= 2
        /\ \E i \in 1..Len(Plans(result, h)) : Plans(result, h)[i] = PyNone
        /\ \E i, j \in 1..Len(Plans(result, h)) :
               i # j /\ Plans(result, h)[i] = Plans(result, h)[j]

\* C9: after a completed run the store holds exactly one row per distinct
\* fingerprint of the input, and every row has occurrence_count >= 1.
C9_OneRowPerFingerprintCountPositive ==
    pc = "done" =>
        /\ {r.hash : r \in db.rows} = {h.s : h \in Observed}
        /\ \A r1, r2 \in db.rows : r1.hash = r2.hash => r1 = r2
        /\ \A r \in db.rows : r.count >= 1

\* What the classification rule asks of a decoded mapping: the message is
\* "Slow query" and the attributes hold a non-empty fingerprint.
Applicable(d) ==
    /\ d.msg = PyStr("Slow query")
    /\ d.attr.kind = "dict"
    /\ d.attr.queryHash.t # "missing"
    /\ Truthy(d.attr.queryHash)

\* C10: for every decoded mapping that was read, extraction raises nothing
\* and returns a query event exactly when the record is applicable.
C10_Classification ==
    \A i \in 1..Len(data) :
        LET d == parse_log_line(data[i]) IN
        d.json = "dict" =>
            /\ ~extract_query_data(d).raised
            /\ (extract_query_data(d).value.t = "event") <=> Applicable(d)

\* C11: after a completed run the rows of the store are exactly the rows
\* built from this run's aggregate records: no row of a prior store
\* survives and no count is carried over from it.
C11_StoreReplaced ==
    pc = "done" =>
        /\ db.exists
        /\ db.rows = {Row(result, h) : h \in hashes}
        /\ PriorRow \notin db.rows
        /\ \A r \in db.rows : r.count <= Len(data)

\* C11 witness: a run that found a store of an earlier run has completed
\* and has written rows, none of them for the fingerprint of the prior row.
C11_Witness ==
    /\ pc = "done"
    /\ prior.exists /\ prior.rows = {PriorRow}
    /\ \E r \in db.rows : r.count >= 1
    /\ \A r \in db.rows : r.hash # PriorRow.hash

\* C12: reading a line that does not decode leaves the in-memory aggregate
\* state (the records, the set of fingerprints, the current event) as it
\* was, so the lines around it are aggregated as if it were not there.
C12_GarbageSkipped ==
    [][\A l \in Lines :
         (Reads(l) /\ parse_log_line(l) = ParsedNone)
         => /\ result' = result
            /\ hashes' = hashes
            /\ query_data' = query_data
            /\ pc' = pc]_vars

\* C12 witness: a line that does not decode lies between two slow-query
\* events of one fingerprint, and both events are counted.
C12_Witness ==
    /\ Len(data) = 3
    /\ parse_log_line(data[2]) = ParsedNone
    /\ \E h \in StrHashes : EventsOf(h) = {1, 3} /\ Count(result, h) = 2

\* The run has ended.
Terminal == pc \in {"done", "not_found", "aborted_ingest", "aborted_persist"}

\* C15: on every exit path, the input file handle and the store handle are
\* closed by the time the run ends.
C15_HandlesReleased == Terminal => (~fileOpen /\ ~connOpen)

\* The event that the step reading line l hands to the merge step.
EventOf(l) == extract_query_data(parse_log_line(l)).value

\* C16: an event whose merge step fails leaves the in-memory records
\* exactly as they were before it.
C16_FailedMergeSkipped ==
    [][\A l \in EventLines :
         (/\ Reads(l)
          /\ Extracted(l)
          /\ create_or_update_result(result, EventOf(l)).raised)
         => result' = result]_vars

\* The six field prefixes of the flat map.
Prefixes ==
    {"durationMillis_", "count_", "ns_", "planSummary_", "avgDurationMillis_", "command_"}

\* The part of the flat map that belongs to fingerprint h.
FieldsOf(res, h) ==
    [p \in {q \in Prefixes : Key(q, h) \in DOMAIN res} |-> res[Key(p, h)]]

\* The keys of distinct (field, fingerprint) pairs are distinct.
KeysDistinct ==
    \A p1, p2 \in Prefixes : \A h1, h2 \in StrHashes :
        Key(p1, h1) = Key(p2, h2) => (p1 = p2 /\ h1 = h2)

\* C17: a step that merges an event of fingerprint f leaves the fields of
\* every other string fingerprint unchanged, and the keys of distinct
\* (field, fingerprint) pairs are distinct.
C17_OtherFingerprintsUntouched ==
    [][/\ KeysDistinct
       /\ \A g \in StrHashes :
            g # query_data'.hash => FieldsOf(result', g) = FieldsOf(result, g)]_vars

\* C17 witness: two fingerprints have a record each, and the second one
\* was created after the first.
C17_Witness ==
    \E f, g \in StrHashes :
        /\ f # g
        /\ Count(result, f) >= 1 /\ Count(result, g) >= 1
        /\ \E i \in EventsOf(f) : \E j \in EventsOf(g) : i < j
        /\ Total(result, f) = SumDurations(f, Len(data))
        /\ Total(result, g) = SumDurations(g, Len(data))

\* C18: the store is neither deleted nor written before the whole input
\* has been consumed, and a run that ends because the input is missing or
\* ingestion aborts ends with a message and the store as it was.
C18_StoreUntouchedUntilIngested ==
    [][/\ pc \in {"start", "ingest"} => (db = prior /\ db' = prior)
       /\ pc \notin {"start", "ingest"} => data' = data
       /\ pc' \in {"not_found", "aborted_ingest"}
              => (Len(printed') > Len(printed) /\ db' = prior)]_vars

\* C18 witness: ingestion of an input of several lines aborted, and the
\* store of the earlier run is still there.
C18_Witness ==
    /\ pc = "aborted_ingest"
    /\ Len(data) >= 2
    /\ prior.exists
    /\ db = prior
    /\ printed # <<>>

(* ------------------------- claims on the report ------------------------ *)

\* text contains pattern, character for character.
Contains(text, pattern) ==
    \E i \in 1..(Len(text) - Len(pattern) + 1) :
        \A j \in 1..Len(pattern) : text[i + j - 1] = pattern[j]

\* text contains pattern, ASCII letters compared without regard to case.
ContainsAnyCase(text, pattern) ==
    \E i \in 1..(Len(text) - Len(pattern) + 1) :
        \A j \in 1..Len(pattern) : Fold(text[i + j - 1]) = Fold(pattern[j])

\* The plan summaries recorded for the fingerprint with hash text x.
PlansOfHash(x) == Plans(result, PyStr(x))

\* Some plan summary of the fingerprint contains COLLSCAN.
HasCollscan(x) ==
    \E k \in 1..Len(PlansOfHash(x)) :
        Contains(Chars(PlansOfHash(x)[k].s), Chars("COLLSCAN"))

\* Some plan summary of the fingerprint contains COLLSCAN in any letter case.
HasCollscanAnyCase(x) ==
    \E k \in 1..Len(PlansOfHash(x)) :
        ContainsAnyCase(Chars(PlansOfHash(x)[k].s), Chars("COLLSCAN"))

\* The row limit cut nothing off.
NotCut == args.limit < 0 \/ Len(output) < args.limit

InOutput(r) == \E i \in 1..Len(output) : output[i].hash = r.hash

\* C13: no output row has a count below the minimum; with the plan filter
\* on, every output row has COLLSCAN in one of its plan summaries; and
\* every stored row that passes both filters is in the output unless the
\* row limit cut it off.
C13_ReportFilter ==
    pc = "done" =>
        /\ \A i \in 1..Len(output) :
               /\ output[i].count >= args.count
               /\ args.collscan => HasCollscan(output[i].hash)
        /\ NotCut =>
               \A r \in db.rows :
                   (r.count >= args.count /\ (args.collscan => HasCollscan(r.hash)))
                   => InOutput(r)

\* C13 as amended: the same, the substring being compared without regard
\* to the case of ASCII letters.
C13_ReportFilterAnyCase ==
    pc = "done" =>
        /\ \A i \in 1..Len(output) :
               /\ output[i].count >= args.count
               /\ args.collscan => HasCollscanAnyCase(output[i].hash)
        /\ NotCut =>
               \A r \in db.rows :
                   (r.count >= args.count /\ (args.collscan => HasCollscanAnyCase(r.hash)))
                   => InOutput(r)

\* C13 witness: a report with the plan filter on and no row limit lists a
\* row and leaves out a stored row that has no COLLSCAN plan.
C13_Witness ==
    /\ pc = "done"
    /\ args.collscan /\ args.limit < 0
    /\ Len(output) >= 1
    /\ \E r \in db.rows : r.count >= 1 /\ ~InOutput(r)

\* The stored rows that pass the WHERE clause of the report.
Filtered ==
    {r \in db.rows :
        /\ r.count >= args.count
        /\ args.collscan => Like(r.planSummary, Chars("COLLSCAN"))}

\* The output is in non-increasing order of the sort key, and no filtered
\* row that is left out has a key above that of a row that is listed.
SortedAndBest ==
    /\ \A i \in 1..(Len(output) - 1) : KeyGE(output[i], output[i + 1], args.sort)
    /\ \A r \in Filtered :
           ~InOutput(r) => \A i \in 1..Len(output) : KeyGE(output[i], r, args.sort)

\* C14: the output is sorted in non-increasing order of the sort key, has
\* at most `limit` rows, and leaves out no filtered row with a key above
\* that of a listed row.
C14_ReportOrderAndLimit ==
    pc = "done" =>
        /\ SortedAndBest
        /\ Len(output) <= (IF args.limit >= 0 THEN args.limit ELSE 0)

\* C14 as amended: the bound on the number of rows holds for a limit that
\* is not negative; with a negative limit every filtered row is listed.
C14_ReportOrderAndNonNegativeLimit ==
    pc = "done" =>
        /\ SortedAndBest
        /\ args.limit >= 0 => Len(output) <= args.limit
        /\ args.limit < 0 => \A r \in Filtered : InOutput(r)

\* C14 witness: a report limited to one row, with the plan filter on,
\* lists the filtered row with the highest key: it leaves out a filtered row
\* with a lower key, and a stored row with a higher key that the filter
\* dropped.
C14_Witness ==
    /\ pc = "done"
    /\ args.limit = 1
    /\ Len(output) = 1
    /\ \E r \in Filtered : ~InOutput(r) /\ ~KeyGE(r, output[1], args.sort)
    /\ \E r \in db.rows \ Filtered : ~KeyGE(output[1], r, args.sort)

====
